---------------------------- MODULE Spec2Model ----------------------------
(***************************************************************************)
(* A model of the codegraph indexer (rust-cli): the full scan              *)
(* (scanner.rs), the incremental update (commands/update.rs, differ.rs),   *)
(* the persisted documents (graph.rs, slicer.rs) and the path functions    *)
(* they resolve imports with (path_utils.rs), and the impact analysis      *)
(* (impact.rs).                                                            *)
(*                                                                         *)
(* Paths, import sources and module names are strings and are handled     *)
(* character by character, as the code handles them.  File contents are    *)
(* opaque tokens: what tree-sitter and the language adapters extract from  *)
(* the bytes of a file is given by the table Facts.                        *)
(***************************************************************************)
EXTENDS Integers, Sequences, FiniteSets, TLC

VARIABLES
    root,        \* the project directory handed to scan/update
    disk,        \* the source tree: relPath -> content, or Absent
    now,         \* the clock chrono_now() reads (whole seconds)
    graphJson,   \* .codemap/graph.json, or None
    metaJson,    \* .codemap/meta.json, or None
    slicesDir,   \* .codemap/slices/: document name -> document
    graph,       \* the CodeGraph the last operation built in memory
    last,        \* the last operation and the changeset it computed
    dirty,       \* the source tree was changed after the last operation
    edits,       \* number of changes made to the source tree so far
    oldHashes,   \* detect_changed_files: its first argument
    newHashes,   \* detect_changed_files: its second argument
    changes,     \* detect_changed_files: its result, or NoChanges
    pc,          \* where the running command stands: "idle" between commands
    impact,      \* analyze_impact: its arguments and its result, or None
    detected     \* detect_module_name: its arguments and its result, or None

vars == <<root, disk, now, graphJson, metaJson, slicesDir, graph, last,
          edits, dirty, oldHashes, newHashes, changes, pc, impact, detected>>

-----------------------------------------------------------------------------
(* Strings.  TLC treats a string as a sequence of one-character strings.   *)

\* The characters that occur in the model, in ascending byte order.
Ascii == "-./0123456789:?ABCDEFGHIJKLMNOPQRSTUVWXYZ\\_abcdefghijklmnopqrstuvwxyz"

CharAt(s, i) == SubSeq(s, i, i)

CharCode(c) == CHOOSE i \in 1..Len(Ascii) : CharAt(Ascii, i) = c

\* str::cmp / String::cmp: bytewise lexicographic order.
RECURSIVE StrLessFrom(_, _, _)
StrLessFrom(a, b, i) ==
    IF i > Len(a) THEN i <= Len(b)
    ELSE IF i > Len(b) THEN FALSE
    ELSE IF CharAt(a, i) = CharAt(b, i) THEN StrLessFrom(a, b, i + 1)
    ELSE CharCode(CharAt(a, i)) < CharCode(CharAt(b, i))

StrLess(a, b) == StrLessFrom(a, b, 1)

\* str::rfind(c) as a 1-based position; 0 stands for None.
Greatest(hits) == IF hits = {} THEN 0 ELSE CHOOSE i \in hits : \A j \in hits : j <= i

RFind(s, c) == Greatest({i \in 1..Len(s) : CharAt(s, i) = c})

\* str::find(c) as a 1-based position; 0 stands for None.
Least(hits) == IF hits = {} THEN 0 ELSE CHOOSE i \in hits : \A j \in hits : i <= j

Find(s, c) == Least({i \in 1..Len(s) : CharAt(s, i) = c})

StartsWith(s, c) == Len(s) >= 1 /\ CharAt(s, 1) = c

\* str::replace(from, to) for single characters.
RECURSIVE Replace(_, _, _)
Replace(s, from, to) ==
    IF s = "" THEN ""
    ELSE (IF CharAt(s, 1) = from THEN to ELSE CharAt(s, 1))
         \o Replace(SubSeq(s, 2, Len(s)), from, to)

Upper == "ABCDEFGHIJKLMNOPQRSTUVWXYZ"
Lower == "abcdefghijklmnopqrstuvwxyz"

\* str::to_lowercase on the ASCII range.
RECURSIVE ToLower(_)
LowerAt(c, k) == IF k = 0 THEN c ELSE CharAt(Lower, k)

ToLower(s) ==
    IF s = "" THEN ""
    ELSE LowerAt(CharAt(s, 1), Find(Upper, CharAt(s, 1))) \o ToLower(SubSeq(s, 2, Len(s)))

\* str::split(sep): the pieces between separators, empty pieces included.
RECURSIVE SplitAt(_, _, _)
SplitAt(s, sep, k) ==
    IF k = 0 THEN <<s>>
    ELSE <<SubSeq(s, 1, k - 1)>>
         \o SplitAt(SubSeq(s, k + 1, Len(s)), sep, Find(SubSeq(s, k + 1, Len(s)), sep))

Split(s, sep) == SplitAt(s, sep, Find(s, sep))

\* [&str]::join(sep)
RECURSIVE Join(_, _)
Join(parts, sep) ==
    IF parts = <<>> THEN ""
    ELSE IF Len(parts) = 1 THEN parts[1]
    ELSE parts[1] \o sep \o Join(Tail(parts), sep)

Range(f) == {f[x] : x \in DOMAIN f}

\* Vec::retain(|f| f != x)
RECURSIVE Retain(_, _)
Retain(q, x) ==
    IF q = <<>> THEN <<>>
    ELSE (IF Head(q) = x THEN <<>> ELSE <<Head(q)>>) \o Retain(Tail(q), x)

RECURSIVE SumOver(_, _)
SumOver(S, f) ==
    IF S = {} THEN 0
    ELSE LET x == CHOOSE y \in S : TRUE IN f[x] + SumOver(S \ {x}, f)

-----------------------------------------------------------------------------
(* path_utils.rs                                                           *)

\* dot and slash are 1-based, so slash already is "index + 1" (0 if none).
StripAt(path, dot, slash) ==
    IF dot # 0 /\ dot - 1 > slash THEN SubSeq(path, 1, dot - 1) ELSE path

strip_extension(path) == StripAt(path, RFind(path, "."), RFind(path, "/"))

DirnameUpTo(path, i) ==
    IF i > 1 THEN SubSeq(path, 1, i - 1)
    ELSE IF i = 1 THEN "/"
    ELSE "."

posix_dirname(path) == DirnameUpTo(path, RFind(path, "/"))

RECURSIVE NormalizeParts(_, _)
NormalizeParts(segs, parts) ==
    IF segs = <<>> THEN parts
    ELSE IF Head(segs) = "" \/ Head(segs) = "." THEN NormalizeParts(Tail(segs), parts)
    ELSE IF Head(segs) = ".."
         THEN NormalizeParts(Tail(segs), SubSeq(parts, 1, Len(parts) - 1))
    ELSE NormalizeParts(Tail(segs), Append(parts, Head(segs)))

posix_normalize(path) == Join(NormalizeParts(Split(path, "/"), <<>>), "/")

normalize_path(path) == posix_normalize(Replace(path, "\\", "/"))

-----------------------------------------------------------------------------
(* std::path, on '/'-separated paths.                                      *)

\* Path::components: the non-empty segments other than ".".
Components(path) ==
    SelectSeq(Split(path, "/"), LAMBDA seg : seg # "" /\ seg # ".")

\* Path::file_name; "" when there is none.
LastNormal(cs) == IF cs = <<>> \/ cs[Len(cs)] = ".." THEN "" ELSE cs[Len(cs)]

FileName(path) == LastNormal(Components(path))

\* Path::extension; "" stands for None (no caller tells None from Some("")).
AfterDot(name, dot) == IF dot <= 1 THEN "" ELSE SubSeq(name, dot + 1, Len(name))

ExtensionOf(name) == AfterDot(name, RFind(name, "."))

PathExtension(path) == ExtensionOf(FileName(path))

\* Path::file_stem; "" stands for None.
BeforeDot(name, dot) == IF dot <= 1 THEN name ELSE SubSeq(name, 1, dot - 1)

StemOf(name) == BeforeDot(name, RFind(name, "."))

FileStem(path) == StemOf(FileName(path))

\* Path::parent, for a path that has a file name.
ParentUpTo(path, i) ==
    IF i = 0 THEN "" ELSE IF i = 1 THEN "/" ELSE SubSeq(path, 1, i - 1)

PathParent(path) == ParentUpTo(path, RFind(path, "/"))

\* Path::join
PathJoin(base, rel) ==
    IF StartsWith(rel, "/") \/ base = "" THEN rel
    ELSE IF CharAt(base, Len(base)) = "/" THEN base \o rel
    ELSE base \o "/" \o rel

\* Path::strip_prefix(root_dir) of a path below root_dir.
StripPrefix(path, root_dir) == SubSeq(path, Len(root_dir) + 2, Len(path))

\* PathBuf::cmp compares component by component.
RECURSIVE SeqLess(_, _)
SeqLess(a, b) ==
    IF a = <<>> THEN b # <<>>
    ELSE IF b = <<>> THEN FALSE
    ELSE IF Head(a) = Head(b) THEN SeqLess(Tail(a), Tail(b))
    ELSE StrLess(Head(a), Head(b))

PathLess(a, b) == SeqLess(Split(a, "/"), Split(b, "/"))

-----------------------------------------------------------------------------
(* The pure functions of traverser.rs, graph.rs and scanner.rs that work   *)
(* on the characters of a path.                                            *)

DEFAULT_EXCLUDE == {"node_modules", "dist", "build", ".git", "vendor",
                    "__pycache__", "target", ".codemap"}

NoLanguage == "none"

LanguageOf(ext) ==
    CASE ext \in {"ts", "tsx"} -> "typescript"
      [] ext \in {"js", "jsx", "mjs", "cjs"} -> "javascript"
      [] ext = "py" -> "python"
      [] ext = "go" -> "go"
      [] ext = "rs" -> "rust"
      [] ext = "java" -> "java"
      [] ext \in {"c", "h"} -> "c"
      [] ext \in {"cpp", "cc", "cxx", "hpp", "hh"} -> "cpp"
      [] OTHER -> NoLanguage

detect_language(path) == LanguageOf(ToLower(PathExtension(path)))

\* The closure of has_cpp_source_files, for one file.
IsCppSource(path) ==
    ToLower(PathExtension(path)) \in {"cpp", "cc", "cxx", "hpp", "hh"}

\* The extension test of effective_language.
IsHeader(path) == ToLower(PathExtension(path)) = "h"

is_excluded(path, root_dir, extra_exclude) ==
    \E c \in Range(Components(StripPrefix(path, root_dir))) :
        c \in DEFAULT_EXCLUDE \/ c \in extra_exclude

ENTRY_POINT_NAMES == {"main", "index", "server", "app", "entry", "bootstrap"}

is_entry_point(file_path) == ToLower(FileStem(file_path)) \in ENTRY_POINT_NAMES

COMMON_ROOT_DIRS == {"src", "lib", "app", "source", "packages"}

\* detect_module_name without its while loop.
SkipNothing(segments) == segments

\* The while loop of detect_module_name (95-97).
RECURSIVE SkipCommonRoots(_)
SkipCommonRoots(segments) ==
    IF segments # <<>> /\ segments[1] \in COMMON_ROOT_DIRS
    THEN SkipCommonRoots(Tail(segments))
    ELSE segments

\* detect_module_name without the pop of the file name.
WithLast(q) == q

\* segments.pop() (90-92).
WithoutLast(q) == SubSeq(q, 1, Len(q) - 1)

FirstOrRoot(segments) == IF segments = <<>> THEN "_root" ELSE segments[1]

detect_module_name(file_path, root_dir) ==
    FirstOrRoot(SkipCommonRoots(WithoutLast(Components(StripPrefix(file_path, root_dir)))))

\* The relPath scan_project and update.rs store for an absolute path.
RelPathOf(abs_path, root_dir) == Replace(StripPrefix(abs_path, root_dir), "\\", "/")

\* The key resolve_import_module looks up for an import (341-344).
ScanResolved(importer_path, import_source) ==
    Replace(normalize_path(PathJoin(PathParent(importer_path), import_source)),
            "\\", "/")

\* The key rebuild_dependencies looks up for an import (182, 190-191).
RebuildResolved(rel_path, import_source) ==
    posix_normalize(posix_dirname(Replace(rel_path, "\\", "/")) \o "/" \o import_source)

-----------------------------------------------------------------------------
(* The inputs: project roots, the paths a source tree may hold, and the    *)
(* contents a file may have.                                               *)

\* commands/scan.rs and commands/update.rs canonicalize the directory, which
\* gives an absolute path ("/proj"); the library tests call scan_project
\* with a drive-letter root written with forward slashes ("E:/proj").
Roots == {"/proj", "E:/proj"}

Paths == {"src/auth/index.ts", "src/auth/login.ts", "src/utils/helper.ts"}

\* A C header, a C++ source and a file without a language.
LangPaths == {"src/core/util.h", "src/gui/win.cpp", "src/core/notes.txt"}

\* The paths of a tree with three modules.
ScanPaths == Paths \cup {"src/core/app.ts"}

\* Two files that differ in their extension only, and a file of a module.
LookupPaths == {"src/login.ts", "src/login.js", "src/utils/helper.ts"}

\* Every path of the model.
Universe == Paths \cup LangPaths \cup ScanPaths \cup LookupPaths

Absent == "absent"

\* What an adapter extracts from a file's bytes once convert_functions and
\* convert_classes have run, and the sources of its imports: scanner.rs
\* 163-174 and update.rs 121-131 are the same calls.  tree is FALSE when
\* Parser::parse returns None, readable is FALSE when std::fs::read fails.
\* lines, types and exports travel with the entry exactly like functions
\* and are left out.
Facts ==
    [c \in {"A", "B", "C", "L", "X", "I", "U"} |->
        CASE c = "A" -> [readable |-> TRUE, tree |-> TRUE,
                         functions |-> <<"login">>, classes |-> <<>>,
                         imports |-> <<"../utils/helper", "../auth", "bcrypt">>]
          [] c = "B" -> [readable |-> TRUE, tree |-> TRUE,
                         functions |-> <<"fmt", "parse">>, classes |-> <<"Helper">>,
                         imports |-> <<>>]
          \* imports that leave the project root through '..'
          [] c = "C" -> [readable |-> TRUE, tree |-> TRUE,
                         functions |-> <<"climb">>, classes |-> <<>>,
                         imports |-> <<"../../../src/utils/helper",
                                       "../../../proj/src/utils/helper">>]
          \* an import of a file by its path without extension
          [] c = "L" -> [readable |-> TRUE, tree |-> TRUE,
                         functions |-> <<"main">>, classes |-> <<>>,
                         imports |-> <<"../login">>]
          [] c = "X" -> [readable |-> TRUE, tree |-> FALSE,
                         functions |-> <<>>, classes |-> <<>>,
                         imports |-> <<>>]
          \* #include "../core/util.h" and #include <stdio.h>
          \* (languages/c_lang.rs extract_c_includes)
          [] c = "I" -> [readable |-> TRUE, tree |-> TRUE,
                         functions |-> <<"draw">>, classes |-> <<>>,
                         imports |-> <<"../core/util.h", "stdio.h">>]
          [] c = "U" -> [readable |-> FALSE, tree |-> FALSE,
                         functions |-> <<>>, classes |-> <<>>,
                         imports |-> <<>>]]

\* The contents a TypeScript file of the model may have, and the contents
\* of the other files.
Contents == {"A", "B", "X"}

LangContents == {"I", "X", "U"}

ContentsFor(p) == IF p \in LangPaths THEN LangContents ELSE Contents

\* The --exclude arguments of the commands (none are given).
ExtraExclude == {}

\* A module name that no path of Paths yields, for the entries handed to
\* merge_graph_update directly.
OtherModule == "core"

-----------------------------------------------------------------------------
(* The values of the character-level functions at the strings of the       *)
(* model.  The functions are pure: an entry of a table is what the call    *)
(* returns.                                                                *)

AbsFiles(r) == {PathJoin(r, p) : p \in Universe}

AllFiles == UNION {AbsFiles(r) : r \in Roots}

Sources == UNION {Range(Facts[c].imports) : c \in DOMAIN Facts}

LanguageAt == [f \in AllFiles |-> detect_language(f)]

CppSourceAt == [f \in AllFiles |-> IsCppSource(f)]

HeaderAt == [f \in AllFiles |-> IsHeader(f)]

EntryPointAt == [f \in AllFiles |-> is_entry_point(f)]

ExcludedAt == [r \in Roots |-> [f \in AbsFiles(r) |-> is_excluded(f, r, ExtraExclude)]]

ModuleNameAt == [r \in Roots |-> [f \in AbsFiles(r) |-> detect_module_name(f, r)]]

RelPathAt == [r \in Roots |-> [f \in AbsFiles(r) |-> RelPathOf(f, r)]]

AbsPathAt == [r \in Roots |-> [p \in Universe |-> PathJoin(r, p)]]

\* path.replace('\\', "/") and strip_extension of it.
KeyAt == [f \in AllFiles \cup Universe |-> Replace(f, "\\", "/")]

StrippedAt == [f \in AllFiles \cup Universe |-> strip_extension(Replace(f, "\\", "/"))]

ParentAt == [p \in Universe |-> PathParent(p)]

ParentDirAt == [p \in Universe |-> Replace(PathParent(p), "\\", "/")]

RelativeAt == [src \in Sources |-> StartsWith(src, ".")]

ScanResolvedAt == [f \in AllFiles |-> [src \in Sources |-> ScanResolved(f, src)]]

RebuildResolvedAt == [p \in Universe |-> [src \in Sources |-> RebuildResolved(p, src)]]

Languages == {"typescript", "javascript", "python", "go", "rust", "java", "c", "cpp"}

ModuleNames == UNION {Range(ModuleNameAt[r]) : r \in Roots} \cup {OtherModule}

\* The keys of the hash maps handed to detect_changed_files directly.
HashKeys == Paths \cup {"lib/db.ts"}

\* Every string the model sorts.
Names == HashKeys \cup Universe \cup ModuleNames \cup Languages

StrLessAt == [a \in Names |-> [b \in Names |-> StrLess(a, b)]]

PathLessAt == [a \in AllFiles |-> [b \in AllFiles |-> PathLess(a, b)]]

\* Vec<String>::sort() of the distinct strings of a set.
RECURSIVE SortStrings(_)
SortStrings(S) ==
    IF S = {} THEN <<>>
    ELSE LET m == CHOOSE x \in S : \A y \in S \ {x} : StrLessAt[x][y]
         IN  <<m>> \o SortStrings(S \ {m})

\* Vec<PathBuf>::sort()
RECURSIVE SortPaths(_)
SortPaths(S) ==
    IF S = {} THEN <<>>
    ELSE LET m == CHOOSE x \in S : \A y \in S \ {x} : PathLessAt[x][y]
         IN  <<m>> \o SortPaths(S \ {m})

IsSortedStrict(q) == \A i \in 1..(Len(q) - 1) : StrLessAt[q[i]][q[i + 1]]

-----------------------------------------------------------------------------
(* traverser.rs                                                            *)

has_cpp_source_files(files) == \E i \in DOMAIN files : CppSourceAt[files[i]]

effective_language(path, base, project_has_cpp) ==
    IF base = "c" /\ project_has_cpp /\ HeaderAt[path] THEN "cpp" ELSE base

\* The regular files below root_dir that are not excluded and have a
\* language, sorted.  (.gitignore rules are not modelled: no path of the
\* model is ignored.)
traverse_files(root_dir, tree) ==
    SortPaths({AbsPathAt[root_dir][p] : p \in
        {q \in DOMAIN tree :
            /\ tree[q] # Absent
            /\ ~ExcludedAt[root_dir][AbsPathAt[root_dir][q]]
            /\ LanguageAt[AbsPathAt[root_dir][q]] # NoLanguage}})

-----------------------------------------------------------------------------
(* graph.rs                                                                *)

\* SHA-256 is taken to be injective on the contents of the model.
compute_file_hash(content) == "sha256:" \o content

None == <<>>
Some(x) == <<x>>

\* HashMap::insert
MapInsert(m, k, v) == [x \in DOMAIN m \cup {k} |-> IF x = k THEN v ELSE m[x]]

\* HashMap::remove
MapRemove(m, k) == [x \in DOMAIN m \ {k} |-> m[x]]

EmptyMap == [x \in {} |-> x]

create_empty_graph(project_name, root_dir, t) ==
    [version   |-> "1.0",
     project   |-> [name |-> project_name, root |-> root_dir],
     scannedAt |-> t,
     config    |-> [languages |-> <<>>, excludePatterns |-> <<>>],
     summary   |-> [totalFiles |-> 0, totalFunctions |-> 0, totalClasses |-> 0,
                    languages |-> EmptyMap, modules |-> <<>>,
                    entryPoints |-> <<>>],
     modules   |-> EmptyMap,
     files     |-> EmptyMap]

\* The graph scan_project starts from (108-113).
EmptyGraphAt == [r \in Roots |-> create_empty_graph(FileName(r), Replace(r, "\\", "/"), 0)]

\* meta.json as save_graph builds it from the graph (190-202).
MetaOf(g, t) ==
    [lastScanAt |-> t, scanDuration |-> 0,
     fileHashes |-> [p \in DOMAIN g.files |-> g.files[p].hash]]

-----------------------------------------------------------------------------
(* scanner.rs                                                              *)

convert_imports(sources) ==
    [i \in DOMAIN sources |->
        [source |-> sources[i], isExternal |-> ~RelativeAt[sources[i]]]]

\* The FileEntry that scan_project (190-202, 264-275) and update.rs
\* (133-149) build for a file that was read and parsed.
MakeFileEntry(abs_path, root_dir, content, has_cpp) ==
    [language     |-> effective_language(abs_path, LanguageAt[abs_path], has_cpp),
     module       |-> ModuleNameAt[root_dir][abs_path],
     hash         |-> compute_file_hash(content),
     functions    |-> Facts[content].functions,
     classes      |-> Facts[content].classes,
     imports      |-> convert_imports(Facts[content].imports),
     isEntryPoint |-> EntryPointAt[abs_path]]

\* Step 2 of scan_project: the files that have a language, can be read and
\* parse, in the order traverse_files returned them.
ParsedFiles(root_dir, tree, files) ==
    SelectSeq(files, LAMBDA f :
        /\ LanguageAt[f] # NoLanguage
        /\ Facts[tree[RelPathAt[root_dir][f]]].readable
        /\ Facts[tree[RelPathAt[root_dir][f]]].tree)

FileInfosOf(root_dir, tree, kept, has_cpp) ==
    [i \in DOMAIN kept |->
        [abs_path |-> kept[i],
         rel_path |-> RelPathAt[root_dir][kept[i]],
         entry    |-> MakeFileEntry(kept[i], root_dir,
                                    tree[RelPathAt[root_dir][kept[i]]], has_cpp)]]

ScanFileInfos(root_dir, tree, files) ==
    FileInfosOf(root_dir, tree, ParsedFiles(root_dir, tree, files),
                has_cpp_source_files(files))

\* The path-lookup table of scan_project (220-229): the files are inserted
\* in the order of file_infos; the exact key overwrites, the
\* extension-stripped key is inserted only when the key is vacant.
RECURSIVE ScanPathLookup(_, _, _)
ScanPathLookup(file_infos, i, table) ==
    IF i > Len(file_infos) THEN table
    ELSE LET norm        == KeyAt[file_infos[i].abs_path]
             module      == file_infos[i].entry.module
             t1          == MapInsert(table, norm, module)
             without_ext == StrippedAt[file_infos[i].abs_path]
             t2          == IF without_ext \in DOMAIN t1 THEN t1
                            ELSE MapInsert(t1, without_ext, module)
         IN  ScanPathLookup(file_infos, i + 1, t2)

\* resolve_import_module: Some(module) or None.
resolve_import_module(importer_path, import_source, path_lookup) ==
    IF ~RelativeAt[import_source] THEN None
    ELSE LET resolved   == ScanResolvedAt[importer_path][import_source]
             index_path == resolved \o "/index"
         IN  IF resolved \in DOMAIN path_lookup THEN Some(path_lookup[resolved])
             ELSE IF index_path \in DOMAIN path_lookup
                  THEN Some(path_lookup[index_path])
             ELSE None

\* Step 4 of scan_project: the pairs <<importing module, target module>>
\* that are inserted into depends_on_map and depended_by_map.
ScanEdges(file_infos, path_lookup) ==
    {e \in UNION {
        {<<file_infos[i].entry.module, t[1]>> :
            t \in {resolve_import_module(file_infos[i].abs_path,
                                         file_infos[i].entry.imports[k].source,
                                         path_lookup) :
                   k \in {j \in DOMAIN file_infos[i].entry.imports :
                            ~file_infos[i].entry.imports[j].isExternal}} \ {None}}
        : i \in DOMAIN file_infos} : e[1] # e[2]}

\* The files of one module in the order they were pushed (278-281).
ModuleFilesOf(file_infos, m) ==
    LET mine == SelectSeq(file_infos, LAMBDA info : info.entry.module = m)
    IN  [i \in DOMAIN mine |-> mine[i].rel_path]

\* HashMap<String, u32> of language counts.
LanguageCounts(files) ==
    [l \in {files[p].language : p \in DOMAIN files} |->
        Cardinality({p \in DOMAIN files : files[p].language = l})]

\* graph.files: the entry of every parsed file under its relative path.
ScanEntries(file_infos) ==
    [p \in {file_infos[i].rel_path : i \in DOMAIN file_infos} |->
        file_infos[CHOOSE i \in DOMAIN file_infos : file_infos[i].rel_path = p].entry]

\* graph.modules: steps 3 and 5 of scan_project.
ScanModules(file_infos, edges) ==
    [m \in {file_infos[i].entry.module : i \in DOMAIN file_infos} |->
        [files      |-> ModuleFilesOf(file_infos, m),
         dependsOn  |-> SortStrings({e[2] : e \in {x \in edges : x[1] = m}}),
         dependedBy |-> SortStrings({e[1] : e \in {x \in edges : x[2] = m}})]]

\* graph.summary: step 6 of scan_project.
ScanSummary(file_infos, entries) ==
    [totalFiles     |-> Len(file_infos),
     totalFunctions |-> SumOver(DOMAIN file_infos,
                           [i \in DOMAIN file_infos |-> Len(file_infos[i].entry.functions)]),
     totalClasses   |-> SumOver(DOMAIN file_infos,
                           [i \in DOMAIN file_infos |-> Len(file_infos[i].entry.classes)]),
     languages      |-> LanguageCounts(entries),
     modules        |-> SortStrings({file_infos[i].entry.module : i \in DOMAIN file_infos}),
     entryPoints    |-> SortStrings({p \in DOMAIN entries : entries[p].isEntryPoint})]

ScanGraph(root_dir, t, file_infos, edges, entries) ==
    [EmptyGraphAt[root_dir] EXCEPT
       !.scannedAt = t,
       !.files     = entries,
       !.modules   = ScanModules(file_infos, edges),
       !.summary   = ScanSummary(file_infos, entries),
       !.config    = [languages |-> SortStrings({entries[p].language : p \in DOMAIN entries}),
                      excludePatterns |-> <<>>]]

\* Steps 3 to 6 of scan_project, from the parsed files.
ScanSteps(root_dir, t, file_infos) ==
    ScanGraph(root_dir, t, file_infos,
              ScanEdges(file_infos, ScanPathLookup(file_infos, 1, EmptyMap)),
              ScanEntries(file_infos))

scan_project(root_dir, tree, t) ==
    ScanSteps(root_dir, t, ScanFileInfos(root_dir, tree, traverse_files(root_dir, tree)))

-----------------------------------------------------------------------------
(* differ.rs                                                               *)

\* ChangeSet::is_empty
ChangeSetIsEmpty(cs) == cs.added = <<>> /\ cs.modified = <<>> /\ cs.removed = <<>>

\* detect_changed_files that takes every path of both maps as unchanged.
detect_changed_files_by_key(old_hashes, new_hashes) ==
    [added     |-> SortStrings({p \in DOMAIN new_hashes : p \notin DOMAIN old_hashes}),
     modified  |-> <<>>,
     removed   |-> SortStrings({p \in DOMAIN old_hashes : p \notin DOMAIN new_hashes}),
     unchanged |-> SortStrings({p \in DOMAIN new_hashes : p \in DOMAIN old_hashes})]

detect_changed_files(old_hashes, new_hashes) ==
    [added     |-> SortStrings({p \in DOMAIN new_hashes : p \notin DOMAIN old_hashes}),
     modified  |-> SortStrings({p \in DOMAIN new_hashes :
                                  p \in DOMAIN old_hashes /\ old_hashes[p] # new_hashes[p]}),
     removed   |-> SortStrings({p \in DOMAIN old_hashes : p \notin DOMAIN new_hashes}),
     unchanged |-> SortStrings({p \in DOMAIN new_hashes :
                                  p \in DOMAIN old_hashes /\ old_hashes[p] = new_hashes[p]})]

\* The orders in which a HashMap with the keys S may be iterated.
IterationOrders(S) ==
    {q \in [1..Cardinality(S) -> S] : \A i, j \in DOMAIN q : q[i] = q[j] => i = j}

\* Step 1 of merge_graph_update, for one removed path.
RemoveOne(g, file_path) ==
    IF file_path \notin DOMAIN g.files THEN g
    ELSE LET m == g.files[file_path].module
         IN  [g EXCEPT
                !.files   = MapRemove(g.files, file_path),
                !.modules = IF m \in DOMAIN g.modules
                            THEN [g.modules EXCEPT ![m].files = Retain(@, file_path)]
                            ELSE g.modules]

RECURSIVE RemoveAll(_, _)
RemoveAll(g, removed_files) ==
    IF removed_files = <<>> THEN g
    ELSE RemoveAll(RemoveOne(g, Head(removed_files)), Tail(removed_files))

\* Step 2 without the push of the path onto the module's files.
UpdateOneWithoutPush(g, file_path, file_data) ==
    LET detached ==
            IF /\ file_path \in DOMAIN g.files
               /\ g.files[file_path].module # file_data.module
               /\ g.files[file_path].module \in DOMAIN g.modules
            THEN [g.modules EXCEPT ![g.files[file_path].module].files = Retain(@, file_path)]
            ELSE g.modules
        ensured ==
            IF file_data.module \in DOMAIN detached THEN detached
            ELSE MapInsert(detached, file_data.module,
                           [files |-> <<>>, dependsOn |-> <<>>, dependedBy |-> <<>>])
    IN  [g EXCEPT !.modules = ensured,
                  !.files   = MapInsert(g.files, file_path, file_data)]

\* Step 2 with the file left in the files of its old module.
StayAttached(g, file_path, file_data) == g.modules

\* The modules once a file whose module changes is taken out of the files
\* of its old module (83-91).
Detach(g, file_path, file_data) ==
    IF /\ file_path \in DOMAIN g.files
       /\ g.files[file_path].module # file_data.module
       /\ g.files[file_path].module \in DOMAIN g.modules
    THEN [g.modules EXCEPT ![g.files[file_path].module].files = Retain(@, file_path)]
    ELSE g.modules

\* Step 2 of merge_graph_update, for one updated file.
UpdateOne(g, file_path, file_data) ==
    LET detached == Detach(g, file_path, file_data)
        ensured ==
            IF file_data.module \in DOMAIN detached THEN detached
            ELSE MapInsert(detached, file_data.module,
                           [files |-> <<>>, dependsOn |-> <<>>, dependedBy |-> <<>>])
        pushed ==
            IF file_path \in Range(ensured[file_data.module].files) THEN ensured
            ELSE [ensured EXCEPT ![file_data.module].files = Append(@, file_path)]
    IN  [g EXCEPT !.modules = pushed,
                  !.files   = MapInsert(g.files, file_path, file_data)]

RECURSIVE UpdateAll(_, _, _)
UpdateAll(g, updated_files, order) ==
    IF order = <<>> THEN g
    ELSE UpdateAll(UpdateOne(g, Head(order), updated_files[Head(order)]),
                   updated_files, Tail(order))

\* Step 3 left out.
KeepEmptyModules(g) == g

\* Step 3 of merge_graph_update.
ReapEmptyModules(g) ==
    [g EXCEPT !.modules =
        [m \in {k \in DOMAIN g.modules : g.modules[k].files # <<>>} |-> g.modules[m]]]

\* recalculate_summary without the refresh of summary.modules.
recalculate_summary_stale_modules(g) ==
    [g EXCEPT
        !.summary = [totalFiles     |-> Cardinality(DOMAIN g.files),
                     totalFunctions |-> SumOver(DOMAIN g.files,
                                           [p \in DOMAIN g.files |-> Len(g.files[p].functions)]),
                     totalClasses   |-> SumOver(DOMAIN g.files,
                                           [p \in DOMAIN g.files |-> Len(g.files[p].classes)]),
                     languages      |-> LanguageCounts(g.files),
                     modules        |-> g.summary.modules,
                     entryPoints    |-> SortStrings({p \in DOMAIN g.files :
                                                       g.files[p].isEntryPoint})],
        !.config.languages = SortStrings({g.files[p].language : p \in DOMAIN g.files})]

\* recalculate_summary without the refresh of summary.totalClasses.
recalculate_summary_stale_classes(g) ==
    [g EXCEPT
        !.summary = [totalFiles     |-> Cardinality(DOMAIN g.files),
                     totalFunctions |-> SumOver(DOMAIN g.files,
                                           [p \in DOMAIN g.files |-> Len(g.files[p].functions)]),
                     totalClasses   |-> g.summary.totalClasses,
                     languages      |-> LanguageCounts(g.files),
                     modules        |-> SortStrings(DOMAIN g.modules),
                     entryPoints    |-> SortStrings({p \in DOMAIN g.files :
                                                       g.files[p].isEntryPoint})],
        !.config.languages = SortStrings({g.files[p].language : p \in DOMAIN g.files})]

recalculate_summary(g) ==
    [g EXCEPT
        !.summary = [totalFiles     |-> Cardinality(DOMAIN g.files),
                     totalFunctions |-> SumOver(DOMAIN g.files,
                                           [p \in DOMAIN g.files |-> Len(g.files[p].functions)]),
                     totalClasses   |-> SumOver(DOMAIN g.files,
                                           [p \in DOMAIN g.files |-> Len(g.files[p].classes)]),
                     languages      |-> LanguageCounts(g.files),
                     modules        |-> SortStrings(DOMAIN g.modules),
                     entryPoints    |-> SortStrings({p \in DOMAIN g.files :
                                                       g.files[p].isEntryPoint})],
        !.config.languages = SortStrings({g.files[p].language : p \in DOMAIN g.files})]

\* The path-lookup tables rebuild_dependencies (163-170) can end up with.
\* graph.files is a HashMap, so the files are inserted in an arbitrary
\* order.  A key that is the exact path of a file always ends up with that
\* file's module (insert overwrites); a key that is only an
\* extension-stripped path keeps the module of whichever of its files came
\* first (or_insert).  Every file has one stripped key, so the first file
\* can be chosen for each key independently.
RECURSIVE LookupTables(_, _)
LookupTables(files, keys) ==
    IF keys = {} THEN {EmptyMap}
    ELSE LET k     == CHOOSE x \in keys : TRUE
             exact == {p \in DOMAIN files : KeyAt[p] = k}
             strip == {p \in DOMAIN files : StrippedAt[p] = k}
             cands == {files[p].module : p \in (IF exact # {} THEN exact ELSE strip)}
         IN  {MapInsert(t, k, m) : t \in LookupTables(files, keys \ {k}), m \in cands}

RebuildPathLookups(files) ==
    LookupTables(files,
        {KeyAt[p] : p \in DOMAIN files} \cup {StrippedAt[p] : p \in DOMAIN files})

\* The target module of one import in rebuild_dependencies (184-196):
\* Some(module) or None.
RebuildTarget(rel_path, imp, path_lookup) ==
    IF imp.isExternal \/ ~RelativeAt[imp.source] THEN None
    ELSE LET resolved   == RebuildResolvedAt[rel_path][imp.source]
             index_path == resolved \o "/index"
         IN  IF resolved \in DOMAIN path_lookup THEN Some(path_lookup[resolved])
             ELSE IF index_path \in DOMAIN path_lookup
                  THEN Some(path_lookup[index_path])
             ELSE None

\* The pairs <<importing module, target module>> of rebuild_dependencies.
RebuildEdges(files, path_lookup) ==
    {e \in UNION {
        {<<files[p].module, t[1]>> :
            t \in {RebuildTarget(p, files[p].imports[k], path_lookup) :
                   k \in DOMAIN files[p].imports} \ {None}}
        : p \in DOMAIN files} : e[1] # e[2]}

\* rebuild_dependencies without the write-back of depended_by.
rebuild_dependencies_one_way(g, path_lookup) ==
    [g EXCEPT !.modules =
        [m \in DOMAIN g.modules |->
            [g.modules[m] EXCEPT
                !.dependsOn = SortStrings({e[2] : e \in {x \in RebuildEdges(g.files, path_lookup) :
                                                            x[1] = m}})]]]

\* rebuild_dependencies without its write-back: the lists stay as they were.
KeepLists(g, edges) == g

\* depends_on and depended_by only have the module names as keys, and only
\* the modules are written back.
WriteBack(g, edges) ==
    [g EXCEPT !.modules =
        [m \in DOMAIN g.modules |->
            [g.modules[m] EXCEPT
                !.dependsOn  = SortStrings({e[2] : e \in {x \in edges : x[1] = m}}),
                !.dependedBy = SortStrings({e[1] : e \in {x \in edges : x[2] = m}})]]]

rebuild_dependencies(g, path_lookup) == WriteBack(g, RebuildEdges(g.files, path_lookup))

\* Steps 1 to 3 of merge_graph_update; order is the order in which the
\* HashMap updated_files is iterated.
MergeFiles(g, updated_files, order, removed_files) ==
    ReapEmptyModules(UpdateAll(RemoveAll(g, removed_files), updated_files, order))

\* Step 4 of merge_graph_update.
MergeFinish(g, path_lookup) ==
    rebuild_dependencies(recalculate_summary(g), path_lookup)

\* Every graph a call of merge_graph_update can leave in *graph: one for
\* each order in which updated_files and graph.files are iterated.
MergeFinishes(stepped) ==
    {MergeFinish(stepped, path_lookup) : path_lookup \in RebuildPathLookups(stepped.files)}

merge_graph_update(g, updated_files, removed_files) ==
    UNION {MergeFinishes(MergeFiles(g, updated_files, order, removed_files)) :
              order \in IterationOrders(DOMAIN updated_files)}

-----------------------------------------------------------------------------
(* scan_project with the iteration orders made explicit: the walker of     *)
(* traverse_files yields the files in the order walk, and the hash sets of *)
(* module names are iterated in the order given by order.                  *)

\* The elements of the set S in the order a hash set yields them.
Iterate(S, order) == SelectSeq(order, LAMBDA x : x \in S)

\* Vec<String>::sort() of what was collected from a hash set, without it.
KeepOrder(q) == q

\* Vec<String>::sort() of what was collected from a hash set.
SortVec(q) == SortStrings(Range(q))

\* files.sort() of traverse_files (traverser.rs 115).
SortWalk(walk) == SortPaths(Range(walk))

\* The orders in which the walker may yield the files traverse_files keeps.
WalkOrders(root_dir, tree) == IterationOrders(Range(traverse_files(root_dir, tree)))

\* The orders in which a hash set of the tree's module names may be iterated.
ModuleOrders(root_dir, tree) ==
    IterationOrders({ModuleNameAt[root_dir][f] : f \in Range(traverse_files(root_dir, tree))})

ScanModulesIn(file_infos, edges, order) ==
    [m \in {file_infos[i].entry.module : i \in DOMAIN file_infos} |->
        [files      |-> ModuleFilesOf(file_infos, m),
         dependsOn  |-> SortVec(Iterate({e[2] : e \in {x \in edges : x[1] = m}}, order)),
         dependedBy |-> SortVec(Iterate({e[1] : e \in {x \in edges : x[2] = m}}, order))]]

ScanSummaryIn(file_infos, entries, order) ==
    [ScanSummary(file_infos, entries) EXCEPT
        !.modules = SortVec(Iterate({file_infos[i].entry.module : i \in DOMAIN file_infos},
                                    order))]

ScanGraphIn(root_dir, t, file_infos, edges, entries, order) ==
    [ScanGraph(root_dir, t, file_infos, edges, entries) EXCEPT
        !.modules = ScanModulesIn(file_infos, edges, order),
        !.summary = ScanSummaryIn(file_infos, entries, order)]

ScanStepsIn(root_dir, t, file_infos, order) ==
    ScanGraphIn(root_dir, t, file_infos,
                ScanEdges(file_infos, ScanPathLookup(file_infos, 1, EmptyMap)),
                ScanEntries(file_infos), order)

scan_project_in(root_dir, tree, t, walk, order) ==
    ScanStepsIn(root_dir, t, ScanFileInfos(root_dir, tree, SortWalk(walk)), order)

-----------------------------------------------------------------------------
(* slicer.rs                                                               *)

module_path(mod_data, mod_name) ==
    IF mod_data.files # <<>> /\ ParentAt[mod_data.files[1]] # ""
    THEN ParentDirAt[mod_data.files[1]]
    ELSE mod_name

\* collect_module_stats, and the same sums in build_module_slice.
ModuleStats(g, mod_data) ==
    LET known == {i \in DOMAIN mod_data.files : mod_data.files[i] \in DOMAIN g.files}
    IN  [totalFiles     |-> Len(mod_data.files),
         totalFunctions |-> SumOver(known,
                               [i \in known |-> Len(g.files[mod_data.files[i]].functions)]),
         totalClasses   |-> SumOver(known,
                               [i \in known |-> Len(g.files[mod_data.files[i]].classes)])]

\* order is the order in which the HashMap graph.modules is iterated.
generate_overview(g, order) ==
    [project     |-> g.project,
     scannedAt   |-> g.scannedAt,
     summary     |-> g.summary,
     modules     |-> [i \in DOMAIN order |->
                        [name       |-> order[i],
                         path       |-> module_path(g.modules[order[i]], order[i]),
                         fileCount  |-> Len(g.modules[order[i]].files),
                         dependsOn  |-> g.modules[order[i]].dependsOn,
                         dependedBy |-> g.modules[order[i]].dependedBy,
                         stats      |-> ModuleStats(g, g.modules[order[i]])]],
     entryPoints |-> g.summary.entryPoints]

build_module_slice(g, mod_name, mod_data) ==
    LET known == SelectSeq(mod_data.files, LAMBDA f : f \in DOMAIN g.files)
    IN  [module     |-> mod_name,
         path       |-> module_path(mod_data, mod_name),
         files      |-> [i \in DOMAIN known |->
                           [path |-> known[i], data |-> g.files[known[i]]]],
         dependsOn  |-> mod_data.dependsOn,
         dependedBy |-> mod_data.dependedBy,
         stats      |-> ModuleStats(g, mod_data)]

\* save_slices: _overview.json and one document per module of the graph
\* are (over)written; every other document of the directory stays.
save_slices(dir, g, order) ==
    [name \in DOMAIN dir \cup {"_overview"} \cup DOMAIN g.modules |->
        IF name = "_overview" THEN generate_overview(g, order)
        ELSE IF name \in DOMAIN g.modules
             THEN build_module_slice(g, name, g.modules[name])
        ELSE dir[name]]

-----------------------------------------------------------------------------
(* impact.rs                                                               *)

\* The targets analyze_impact is asked about: the module names, the exact
\* path of a file, a part of several paths, and a string that is in no path.
Targets == {"auth", "core", "utils", "src/auth/login.ts", "src", "lib"}

\* str::contains
Contains(s, t) == \E i \in 1..(Len(s) - Len(t) + 1) : SubSeq(s, i, i + Len(t) - 1) = t

ContainsAt == [f \in Universe |-> [t \in Targets |-> Contains(f, t)]]

\* Vec<String>::sort(): equal strings are kept.
RECURSIVE InsertSorted(_, _)
InsertSorted(q, x) ==
    IF q = <<>> THEN <<x>>
    ELSE IF x = Head(q) \/ StrLessAt[x][Head(q)] THEN <<x>> \o q
    ELSE <<Head(q)>> \o InsertSorted(Tail(q), x)

RECURSIVE VecSort(_)
VecSort(q) == IF q = <<>> THEN <<>> ELSE InsertSorted(VecSort(Tail(q)), Head(q))

\* The file keys that contain the target (84).
Matching(g, target) == {f \in DOMAIN g.files : ContainsAt[f][target]}

\* resolve_target: the pairs <<target type, target module>> it can return.
\* graph.files is a HashMap, so keys().find() returns whichever of the
\* matching keys the map yields first.
resolve_target(g, target) ==
    IF target \in DOMAIN g.modules THEN {<<"module", target>>}
    ELSE IF target \in DOMAIN g.files THEN {<<"file", g.files[target].module>>}
    ELSE IF Matching(g, target) # {}
         THEN {<<"file", g.files[f].module>> : f \in Matching(g, target)}
    ELSE {<<"module", target>>}

\* The depth gate that lets every dequeued module expand once more.
DepthExceeded(depth, max_depth) == depth > max_depth

\* The depth gate of bfs_dependants (104-106).
DepthReached(depth, max_depth) == depth >= max_depth

\* visited.insert(dep) that always reports a new element.
AlwaysNew(dep, visited) == TRUE

\* What visited.insert(dep) returns (113).
NewlyVisited(dep, visited) == dep \notin visited

\* The for loop of bfs_dependants over depended_by (112-117).
RECURSIVE VisitAll(_, _, _)
VisitAll(deps, depth, st) ==
    IF deps = <<>> THEN st
    ELSE VisitAll(Tail(deps), depth,
            IF NewlyVisited(Head(deps), st.visited)
            THEN [st EXCEPT !.visited = @ \cup {Head(deps)},
                            !.result  = Append(@, Head(deps)),
                            !.queue   = Append(@, <<Head(deps), depth + 1>>)]
            ELSE st)

\* The while loop of bfs_dependants (103-118); steps counts the elements
\* taken from the queue.
RECURSIVE BfsLoop(_, _, _)
BfsLoop(modules, max_depth, st) ==
    IF st.queue = <<>> THEN st
    ELSE IF \/ DepthReached(Head(st.queue)[2], max_depth)
            \/ Head(st.queue)[1] \notin DOMAIN modules
         THEN BfsLoop(modules, max_depth,
                      [st EXCEPT !.queue = Tail(@), !.steps = @ + 1])
    ELSE BfsLoop(modules, max_depth,
                 VisitAll(modules[Head(st.queue)[1]].dependedBy, Head(st.queue)[2],
                          [st EXCEPT !.queue = Tail(@), !.steps = @ + 1]))

\* bfs_dependants with nothing marked visited at the start.
NothingVisited(start) == {}

\* visited.insert(start) (98-99).
StartVisited(start) == {start}

\* bfs_dependants up to the end of its loop (97-118).
BfsRun(modules, start, max_depth) ==
    BfsLoop(modules, max_depth,
            [visited |-> StartVisited(start), result |-> <<>>,
             queue |-> <<<<start, 0>>>>, steps |-> 0])

bfs_dependants(modules, start, max_depth) == VecSort(BfsRun(modules, start, max_depth).result)

\* analyze_impact step 2 with an empty list for every module.
NoDirectDependants(g, target_module) == <<>>

\* analyze_impact step 2 (39-43).
DirectDependants(g, target_module) ==
    IF target_module \in DOMAIN g.modules THEN g.modules[target_module].dependedBy
    ELSE <<>>

\* The files of the impacted modules that exist, in the order of the
\* modules (52-56).
RECURSIVE FilesOfModules(_, _)
FilesOfModules(g, names) ==
    IF names = <<>> THEN <<>>
    ELSE (IF Head(names) \in DOMAIN g.modules THEN g.modules[Head(names)].files ELSE <<>>)
         \o FilesOfModules(g, Tail(names))

\* analyze_impact steps 4 and 5 and the result (48-67).
ImpactResult(g, resolved, direct, transitive) ==
    [targetType           |-> resolved[1],
     targetModule         |-> resolved[2],
     directDependants     |-> direct,
     transitiveDependants |-> transitive,
     impactedModules      |-> <<resolved[2]>> \o transitive,
     impactedFiles        |-> VecSort(FilesOfModules(g, <<resolved[2]>> \o transitive))]

ImpactOf(g, resolved, max_depth) ==
    ImpactResult(g, resolved, DirectDependants(g, resolved[2]),
                 bfs_dependants(g.modules, resolved[2], max_depth))

\* Every result a call of analyze_impact can return.
analyze_impact(g, target, max_depth) ==
    {ImpactOf(g, resolved, max_depth) : resolved \in resolve_target(g, target)}

-----------------------------------------------------------------------------
(* The commands and the environment.                                       *)

MaxEdits == 3
MaxClock == 1

\* The directory the commands work on, after Path::canonicalize.
CanonicalRoot == "/proj"

NoChanges == [added |-> <<>>, modified |-> <<>>, removed |-> <<>>, unchanged |-> <<>>]

EmptyTree == [p \in Paths |-> Absent]

\* What is remembered of the last operation: its name, the changeset it
\* worked on, the files it gave another module and the modules it removed.
Outcome(name, cs, moved, reaped) ==
    [op |-> name, changes |-> cs, moved |-> moved, reaped |-> reaped]

Moved(g, updated_files) ==
    {p \in DOMAIN updated_files \cap DOMAIN g.files :
        g.files[p].module # updated_files[p].module}

Reaped(before, after) == DOMAIN before.modules \ DOMAIN after.modules

Init ==
    /\ root = CanonicalRoot
    /\ disk = EmptyTree
    /\ now = 0
    /\ graphJson = None
    /\ metaJson = None
    /\ slicesDir = EmptyMap
    /\ graph = EmptyGraphAt[root]
    /\ last = Outcome("none", NoChanges, {}, {})
    /\ dirty = FALSE
    /\ edits = 0
    /\ oldHashes = EmptyMap
    /\ newHashes = EmptyMap
    /\ changes = NoChanges
    /\ pc = "idle"
    /\ impact = None
    /\ detected = None

\* A file is created or its bytes are replaced.
WriteFile ==
    /\ edits < MaxEdits
    /\ \E p \in DOMAIN disk :
        \E c \in ContentsFor(p) :
        /\ disk[p] # c
        /\ disk' = [disk EXCEPT ![p] = c]
    /\ edits' = edits + 1
    /\ dirty' = TRUE
    /\ UNCHANGED <<root, now, graphJson, metaJson, slicesDir, graph, last,
                   oldHashes, newHashes, changes, pc, impact, detected>>

\* A file is deleted.
DeleteFile ==
    /\ edits < MaxEdits
    /\ \E p \in DOMAIN disk :
        /\ disk[p] # Absent
        /\ disk' = [disk EXCEPT ![p] = Absent]
    /\ edits' = edits + 1
    /\ dirty' = TRUE
    /\ UNCHANGED <<root, now, graphJson, metaJson, slicesDir, graph, last,
                   oldHashes, newHashes, changes, pc, impact, detected>>

\* A second passes.
Tick ==
    /\ now < MaxClock
    /\ now' = now + 1
    /\ UNCHANGED <<root, disk, graphJson, metaJson, slicesDir, graph, last,
                   edits, dirty, oldHashes, newHashes, changes, pc, impact, detected>>

\* graph.rs save_graph (graph.json and meta.json), then slicer.rs
\* save_slices.
Save(g) ==
    /\ graph' = g
    /\ graphJson' = Some(g)
    /\ metaJson' = Some(MetaOf(g, now))
    /\ \E order \in IterationOrders(DOMAIN g.modules) :
          slicesDir' = save_slices(slicesDir, g, order)

\* commands/scan.rs run: scan_and_save (scan_project, save_graph), then
\* save_slices.
CmdScan ==
    /\ Save(scan_project(root, disk, now))
    /\ last' = Outcome("scan", NoChanges, {}, {})
    /\ dirty' = FALSE
    /\ UNCHANGED <<root, disk, now, edits, oldHashes, newHashes, changes, pc, impact, detected>>

\* The files of update.rs 48-56 that have a language and can be read.
HashedFiles(root_dir, tree, files) ==
    {RelPathAt[root_dir][files[i]] : i \in
        {j \in DOMAIN files :
            /\ LanguageAt[files[j]] # NoLanguage
            /\ Facts[tree[RelPathAt[root_dir][files[j]]]].readable}}

\* update.rs 41-66: the hash of every file that has a language and can be
\* read.
NewHashes(root_dir, tree) ==
    [p \in HashedFiles(root_dir, tree, traverse_files(root_dir, tree)) |->
        compute_file_hash(tree[p])]

\* update.rs 68-78: meta.fileHashes, or the hashes of graph.files when
\* meta.json cannot be loaded or its fileHashes is empty.
OldHashes(g, meta) ==
    IF meta # None /\ DOMAIN meta[1].fileHashes # {}
    THEN meta[1].fileHashes
    ELSE [p \in DOMAIN g.files |-> g.files[p].hash]

\* update.rs 95-151: the entries of the added and modified files that
\* parse.
UpdatedFiles(root_dir, tree, cs) ==
    [p \in {q \in Range(cs.added) \cup Range(cs.modified) :
              /\ LanguageAt[AbsPathAt[root_dir][q]] # NoLanguage
              /\ Facts[tree[q]].tree} |->
        MakeFileEntry(AbsPathAt[root_dir][p], root_dir, tree[p],
                      has_cpp_source_files(traverse_files(root_dir, tree)))]

\* update.rs 157-166: the merged graph gets the time of the update and is
\* saved.
SaveMerged(loaded, cs, updated_files, g) ==
    /\ Save(g)
    /\ last' = Outcome("update", cs, Moved(loaded, updated_files), Reaped(loaded, g))

\* update.rs 154-166.
MergeAndSave(loaded, cs, updated_files) ==
    \E merged \in merge_graph_update(loaded, updated_files, cs.removed) :
        SaveMerged(loaded, cs, updated_files, [merged EXCEPT !.scannedAt = now])

\* update.rs 83-166 without the return at 83-86.
ApplyChangesWithoutReturn(loaded, cs) ==
    MergeAndSave(loaded, cs, UpdatedFiles(root, disk, cs))

\* update.rs 83-166: nothing is written when the changeset is empty.
ApplyChanges(loaded, cs) ==
    IF ChangeSetIsEmpty(cs)
    THEN /\ graph' = loaded
         /\ last' = Outcome("update", cs, {}, {})
         /\ UNCHANGED <<graphJson, metaJson, slicesDir>>
    ELSE MergeAndSave(loaded, cs, UpdatedFiles(root, disk, cs))

\* commands/update.rs run.  Without a graph.json the command exits with an
\* error and changes nothing.
CmdUpdate ==
    /\ graphJson # None
    /\ dirty' = FALSE
    /\ ApplyChanges(graphJson[1],
                    detect_changed_files(OldHashes(graphJson[1], metaJson),
                                         NewHashes(root, disk)))
    /\ UNCHANGED <<root, disk, now, edits, oldHashes, newHashes, changes, pc, impact, detected>>

Next ==
    \/ WriteFile
    \/ DeleteFile
    \/ Tick
    \/ CmdScan
    \/ CmdUpdate

Spec == Init /\ [][Next]_vars

-----------------------------------------------------------------------------
(* The commands on a tree of C and C++ files and a file without a          *)
(* language.                                                               *)

InitLang ==
    /\ root = CanonicalRoot
    /\ disk = [p \in LangPaths |-> Absent]
    /\ now = 0
    /\ graphJson = None
    /\ metaJson = None
    /\ slicesDir = EmptyMap
    /\ graph = EmptyGraphAt[root]
    /\ last = Outcome("none", NoChanges, {}, {})
    /\ dirty = FALSE
    /\ edits = 0
    /\ oldHashes = EmptyMap
    /\ newHashes = EmptyMap
    /\ changes = NoChanges
    /\ pc = "idle"
    /\ impact = None
    /\ detected = None

SpecLang == InitLang /\ [][Next]_vars

-----------------------------------------------------------------------------
(* The commands with save_graph and save_slices taken one file write at a  *)
(* time: the process may exit between any two writes.  pc names the        *)
(* document that is written next.                                          *)

\* commands/scan.rs run up to the first write.
StartScan ==
    /\ pc = "idle"
    /\ graph' = scan_project(root, disk, now)
    /\ last' = Outcome("scan", NoChanges, {}, {})
    /\ dirty' = FALSE
    /\ pc' = "graph.json"
    /\ UNCHANGED <<root, disk, now, graphJson, metaJson, slicesDir, edits,
                   oldHashes, newHashes, changes, impact, detected>>

\* update.rs 83-157: return when nothing changed, else merge in memory.
MergeInMemory(loaded, cs, updated_files) ==
    \E merged \in merge_graph_update(loaded, updated_files, cs.removed) :
        /\ graph' = [merged EXCEPT !.scannedAt = now]
        /\ last' = Outcome("update", cs, Moved(loaded, updated_files),
                           Reaped(loaded, merged))
        /\ pc' = "graph.json"

BeginChanges(loaded, cs) ==
    IF ChangeSetIsEmpty(cs)
    THEN /\ graph' = loaded
         /\ last' = Outcome("update", cs, {}, {})
         /\ pc' = "idle"
    ELSE MergeInMemory(loaded, cs, UpdatedFiles(root, disk, cs))

\* commands/update.rs run up to the first write.
StartUpdate ==
    /\ pc = "idle"
    /\ graphJson # None
    /\ dirty' = FALSE
    /\ BeginChanges(graphJson[1],
                    detect_changed_files(OldHashes(graphJson[1], metaJson),
                                         NewHashes(root, disk)))
    /\ UNCHANGED <<root, disk, now, graphJson, metaJson, slicesDir, edits,
                   oldHashes, newHashes, changes, impact, detected>>

\* save_graph, graph.rs 187-188.
WriteGraphJson ==
    /\ pc = "graph.json"
    /\ graphJson' = Some(graph)
    /\ pc' = "meta.json"
    /\ UNCHANGED <<root, disk, now, metaJson, slicesDir, graph, last, dirty, edits,
                   oldHashes, newHashes, changes, impact, detected>>

\* save_graph, graph.rs 190-204.
WriteMetaJson ==
    /\ pc = "meta.json"
    /\ metaJson' = Some(MetaOf(graph, now))
    /\ pc' = "slices"
    /\ UNCHANGED <<root, disk, now, graphJson, slicesDir, graph, last, dirty, edits,
                   oldHashes, newHashes, changes, impact, detected>>

\* save_slices after save_graph.
WriteSlices ==
    /\ pc = "slices"
    /\ \E order \in IterationOrders(DOMAIN graph.modules) :
          slicesDir' = save_slices(slicesDir, graph, order)
    /\ pc' = "idle"
    /\ UNCHANGED <<root, disk, now, graphJson, metaJson, graph, last, dirty, edits,
                   oldHashes, newHashes, changes, impact, detected>>

\* The process exits (is killed) before its next write; what it held in
\* memory is lost, what it wrote stays.
ProcessExit ==
    /\ pc # "idle"
    /\ pc' = "idle"
    /\ last' = Outcome("exit", NoChanges, {}, {})
    /\ UNCHANGED <<root, disk, now, graphJson, metaJson, slicesDir, graph, dirty,
                   edits, oldHashes, newHashes, changes, impact, detected>>

NextPersist ==
    \/ WriteFile
    \/ DeleteFile
    \/ StartScan
    \/ StartUpdate
    \/ WriteGraphJson
    \/ WriteMetaJson
    \/ WriteSlices
    \/ ProcessExit

SpecPersist == Init /\ [][NextPersist]_vars

-----------------------------------------------------------------------------
(* scan_project and merge_graph_update called as library functions, the    *)
(* way tests/differ_compat.rs calls them: the entries handed to            *)
(* merge_graph_update need not come from the files on disk.                *)

\* The number of paths one call of merge_graph_update names, updated and
\* removed together.
MaxTouched == 2

\* The root tests/scanner_compat.rs and tests/fixture_compat.rs scan.
LibraryRoot == "E:/proj"

Trees == [Paths -> Contents \cup {Absent}]

\* The entries a caller may pass for a path: either content, in the module
\* of the path or in another module.
MergeEntries(root_dir, p) ==
    {[MakeFileEntry(AbsPathAt[root_dir][p], root_dir, c, FALSE) EXCEPT !.module = m] :
        c \in {"A", "B"},
        m \in {ModuleNameAt[root_dir][AbsPathAt[root_dir][p]], OtherModule}}

UpdatedFileMaps(root_dir, keys) ==
    {u \in [keys -> UNION {MergeEntries(root_dir, p) : p \in keys}] :
        \A p \in keys : u[p] \in MergeEntries(root_dir, p)}

\* The arguments of one call: updated_files and removed_files.
MergeArguments ==
    UNION {
        {<<u, r>> : u \in UpdatedFileMaps(LibraryRoot, ks[1]), r \in IterationOrders(ks[2])}
        : ks \in {x \in (SUBSET Paths) \X (SUBSET Paths) :
                    Cardinality(x[1]) + Cardinality(x[2]) <= MaxTouched}}

InitMerge ==
    /\ root = LibraryRoot
    /\ disk = EmptyTree
    /\ now = 0
    /\ graphJson = None
    /\ metaJson = None
    /\ slicesDir = EmptyMap
    /\ \E tree \in Trees : graph = scan_project(root, tree, 0)
    /\ last = Outcome("scan", NoChanges, {}, {})
    /\ dirty = FALSE
    /\ edits = 0
    /\ oldHashes = EmptyMap
    /\ newHashes = EmptyMap
    /\ changes = NoChanges
    /\ pc = "idle"
    /\ impact = None
    /\ detected = None

MergeGraphUpdate ==
    /\ \E args \in MergeArguments :
         \E merged \in merge_graph_update(graph, args[1], args[2]) :
            /\ graph' = merged
            /\ last' = Outcome("merge", NoChanges, Moved(graph, args[1]),
                               Reaped(graph, merged))
    /\ UNCHANGED <<root, disk, now, graphJson, metaJson, slicesDir, dirty, edits,
                   oldHashes, newHashes, changes, pc, impact, detected>>

NextMerge == MergeGraphUpdate

SpecMerge == InitMerge /\ [][NextMerge]_vars

-----------------------------------------------------------------------------
(* detect_changed_files called on arbitrary hash maps.                     *)

HashMaps ==
    UNION {[keys -> {compute_file_hash(c) : c \in {"A", "B"}}] : keys \in SUBSET HashKeys}

InitDetect ==
    /\ root = LibraryRoot
    /\ disk = EmptyTree
    /\ now = 0
    /\ graphJson = None
    /\ metaJson = None
    /\ slicesDir = EmptyMap
    /\ graph = EmptyGraphAt[root]
    /\ last = Outcome("none", NoChanges, {}, {})
    /\ dirty = FALSE
    /\ edits = 0
    /\ oldHashes \in HashMaps
    /\ newHashes \in HashMaps
    /\ changes = NoChanges
    /\ pc = "idle"
    /\ impact = None
    /\ detected = None

DetectChangedFiles ==
    /\ changes' = detect_changed_files(oldHashes, newHashes)
    /\ last' = Outcome("detect", changes', {}, {})
    /\ UNCHANGED <<root, disk, now, graphJson, metaJson, slicesDir, graph, dirty,
                   edits, oldHashes, newHashes, pc, impact, detected>>

NextDetect == DetectChangedFiles

SpecDetect == InitDetect /\ [][NextDetect]_vars

-----------------------------------------------------------------------------
(* scan_project called as a library function on every tree of ScanPaths,   *)
(* under both roots, and merge_graph_update called on its result with      *)
(* nothing to merge.                                                       *)

\* Every file of these trees parses.
ScanTrees == [ScanPaths -> {"A", "B", Absent}]

InitScan ==
    /\ root \in Roots
    /\ disk \in ScanTrees
    /\ now = 0
    /\ graphJson = None
    /\ metaJson = None
    /\ slicesDir = EmptyMap
    /\ graph = scan_project(root, disk, 0)
    /\ last = Outcome("scan", NoChanges, {}, {})
    /\ dirty = FALSE
    /\ edits = 0
    /\ oldHashes = EmptyMap
    /\ newHashes = EmptyMap
    /\ changes = NoChanges
    /\ pc = "idle"
    /\ impact = None
    /\ detected = None

\* A second scan of the same tree: the walker and the hash sets may yield
\* their elements in any order.
ScanAgain ==
    /\ \E walk \in WalkOrders(root, disk), order \in ModuleOrders(root, disk) :
          graph' = scan_project_in(root, disk, now, walk, order)
    /\ last' = Outcome("rescan", NoChanges, {}, {})
    /\ UNCHANGED <<root, disk, now, graphJson, metaJson, slicesDir, dirty, edits,
                   oldHashes, newHashes, changes, pc, impact, detected>>

\* merge_graph_update(graph, {}, []).
MergeNothing ==
    /\ \E merged \in merge_graph_update(graph, EmptyMap, <<>>) :
          /\ graph' = merged
          /\ last' = Outcome("merge", NoChanges, {}, Reaped(graph, merged))
    /\ UNCHANGED <<root, disk, now, graphJson, metaJson, slicesDir, dirty, edits,
                   oldHashes, newHashes, changes, pc, impact, detected>>

NextScan ==
    \/ ScanAgain
    \/ MergeNothing
    \/ Tick

SpecScan == InitScan /\ [][NextScan]_vars

-----------------------------------------------------------------------------
(* scan_project and merge_graph_update called on trees whose files import  *)
(* through paths that leave the project root.                               *)

ClimbTrees == [Paths -> {"B", "C", Absent}]

InitClimb ==
    /\ root \in Roots
    /\ disk \in ClimbTrees
    /\ now = 0
    /\ graphJson = None
    /\ metaJson = None
    /\ slicesDir = EmptyMap
    /\ graph = scan_project(root, disk, 0)
    /\ last = Outcome("scan", NoChanges, {}, {})
    /\ dirty = FALSE
    /\ edits = 0
    /\ oldHashes = EmptyMap
    /\ newHashes = EmptyMap
    /\ changes = NoChanges
    /\ pc = "idle"
    /\ impact = None
    /\ detected = None

SpecClimb == InitClimb /\ [][NextScan]_vars

-----------------------------------------------------------------------------
(* merge_graph_update called on graphs with two files whose paths differ   *)
(* in the extension only, which share a key of the path lookup.            *)

LookupTrees == [LookupPaths -> {"B", "L", Absent}]

\* The entries a caller may pass for a path: in the module of the path or
\* in another module.
LookupEntries(root_dir, p) ==
    {[MakeFileEntry(AbsPathAt[root_dir][p], root_dir, c, FALSE) EXCEPT !.module = m] :
        c \in {"B", "L"},
        m \in {ModuleNameAt[root_dir][AbsPathAt[root_dir][p]], OtherModule}}

InitLookup ==
    /\ root = LibraryRoot
    /\ disk \in LookupTrees
    /\ now = 0
    /\ graphJson = None
    /\ metaJson = None
    /\ slicesDir = EmptyMap
    /\ graph = scan_project(root, disk, 0)
    /\ last = Outcome("scan", NoChanges, {}, {})
    /\ dirty = FALSE
    /\ edits = 0
    /\ oldHashes = EmptyMap
    /\ newHashes = EmptyMap
    /\ changes = NoChanges
    /\ pc = "idle"
    /\ impact = None
    /\ detected = None

\* merge_graph_update(graph, {p: entry}, []).
MergeOne ==
    /\ \E p \in LookupPaths :
         \E entry \in LookupEntries(root, p) :
            \E merged \in merge_graph_update(graph, MapInsert(EmptyMap, p, entry), <<>>) :
               /\ graph' = merged
               /\ last' = Outcome("merge", NoChanges,
                                  Moved(graph, MapInsert(EmptyMap, p, entry)),
                                  Reaped(graph, merged))
    /\ UNCHANGED <<root, disk, now, graphJson, metaJson, slicesDir, dirty, edits,
                   oldHashes, newHashes, changes, pc, impact, detected>>

NextLookup ==
    \/ MergeOne
    \/ MergeNothing

SpecLookup == InitLookup /\ [][NextLookup]_vars

-----------------------------------------------------------------------------
(* analyze_impact called on graphs with every dependedBy relation between  *)
(* three modules.                                                          *)

MaxDepth == 3

\* The graph of a tree with the modules auth, core and utils.
ImpactBase == scan_project(LibraryRoot, [p \in ScanPaths |-> "B"], 0)

\* The graph with the modules kept and the dependedBy lists given by
\* dependants; a name of a list need not be a module of the graph.
ImpactGraph(kept, dependants) ==
    [ImpactBase EXCEPT !.modules =
        [m \in kept |->
            [files      |-> ImpactBase.modules[m].files,
             dependsOn  |-> SortStrings({n \in kept : m \in dependants[n]}),
             dependedBy |-> SortStrings(dependants[m])]]]

ImpactGraphs ==
    UNION {{ImpactGraph(kept, dependants) :
               dependants \in [kept -> SUBSET DOMAIN ImpactBase.modules]} :
           kept \in {DOMAIN ImpactBase.modules, DOMAIN ImpactBase.modules \ {"utils"}}}

InitImpact ==
    /\ root = LibraryRoot
    /\ disk = EmptyTree
    /\ now = 0
    /\ graphJson = None
    /\ metaJson = None
    /\ slicesDir = EmptyMap
    /\ graph \in ImpactGraphs
    /\ last = Outcome("none", NoChanges, {}, {})
    /\ dirty = FALSE
    /\ edits = 0
    /\ oldHashes = EmptyMap
    /\ newHashes = EmptyMap
    /\ changes = NoChanges
    /\ pc = "idle"
    /\ impact = None
    /\ detected = None

AnalyzeImpact ==
    /\ \E target \in Targets, max_depth \in 0..MaxDepth :
          \E result \in analyze_impact(graph, target, max_depth) :
             impact' = Some([target |-> target, maxDepth |-> max_depth, result |-> result])
    /\ UNCHANGED <<root, disk, now, graphJson, metaJson, slicesDir, graph, last, dirty,
                   edits, oldHashes, newHashes, changes, pc, detected>>

NextImpact == AnalyzeImpact

SpecImpact == InitImpact /\ [][NextImpact]_vars

-----------------------------------------------------------------------------
(* detect_module_name called on files in directories of every depth up to  *)
(* MaxDirs below a root.                                                    *)

MaxDirs == 2

DirNames == {"src", "lib", "auth", "utils"}

FileNames == {"main.rs", "index.ts", "login.ts", "helper.ts"}

DirLists == UNION {[1..n -> DirNames] : n \in 0..MaxDirs}

InitModule ==
    /\ root \in Roots
    /\ disk = EmptyTree
    /\ now = 0
    /\ graphJson = None
    /\ metaJson = None
    /\ slicesDir = None
    /\ graph = EmptyGraphAt[root]
    /\ last = Outcome("none", NoChanges, {}, {})
    /\ dirty = FALSE
    /\ edits = 0
    /\ oldHashes = EmptyMap
    /\ newHashes = EmptyMap
    /\ changes = NoChanges
    /\ pc = "idle"
    /\ impact = None
    /\ detected = None

DetectModuleName ==
    /\ \E dirs \in DirLists, name \in FileNames :
          detected' = Some([dirs   |-> dirs,
                            name   |-> name,
                            module |-> detect_module_name(
                                           PathJoin(root, Join(Append(dirs, name), "/")),
                                           root)])
    /\ UNCHANGED <<root, disk, now, graphJson, metaJson, slicesDir, graph, last, dirty,
                   edits, oldHashes, newHashes, changes, pc, impact>>

NextModule == DetectModuleName

SpecModule == InitModule /\ [][NextModule]_vars

-----------------------------------------------------------------------------
(* Properties of the commands (Spec).                                      *)

\* The parts of two graphs that must agree for them to be the same graph
\* apart from scannedAt.
SameIndex(g, h) ==
    /\ g.files = h.files
    /\ g.modules = h.modules
    /\ g.summary = h.summary
    /\ g.config.languages = h.config.languages

\* C1: an update run on what a scan persisted leaves the graph a full scan
\* of the present tree would build (files, modules with their files
\* sequences and edges, summary, config.languages).
C1_UpdateEqualsScan ==
    [][(CmdUpdate /\ last.op = "scan")
          => SameIndex(graphJson'[1], scan_project(root, disk, now))]_vars

\* The module of a path of the tree.
ModuleOf(p) == ModuleNameAt[root][AbsPathAt[root][p]]

\* The paths an import of file f may name: the exact path of g, the path
\* of g without its extension, or the directory of an index file g.
ImportHits(f, source, g) ==
    LET target == RebuildResolvedAt[f][source]
    IN  \/ target = KeyAt[g]
        \/ target = StrippedAt[g]
        \/ FileStem(g) = "index" /\ target = ParentDirAt[g]

\* The edges a graph must have by its files' relative imports.
ExpectedEdges(g) ==
    {e \in (DOMAIN g.modules) \X (DOMAIN g.modules) :
        /\ e[1] # e[2]
        /\ \E f \in DOMAIN g.files, h \in DOMAIN g.files :
              /\ g.files[f].module = e[1]
              /\ g.files[h].module = e[2]
              /\ \E k \in DOMAIN g.files[f].imports :
                    /\ RelativeAt[g.files[f].imports[k].source]
                    /\ ImportHits(f, g.files[f].imports[k].source, h)}

\* C6: after a full scan, a relative import of a file of module A that
\* names a file of another module B gives A.dependsOn B and B.dependedBy A.
C6_ScanResolvesRelativeImports ==
    (last.op = "scan" /\ graphJson # None) =>
        \A e \in ExpectedEdges(graphJson[1]) :
            /\ e[2] \in Range(graphJson[1].modules[e[1]].dependsOn)
            /\ e[1] \in Range(graphJson[1].modules[e[2]].dependedBy)

\* C7: an update that follows a scan with no change of the tree in between
\* detects an empty changeset and leaves graph.json as it was.
C7_UpdateAfterScanIsEmpty ==
    [][(CmdUpdate /\ last.op = "scan" /\ ~dirty)
          => (ChangeSetIsEmpty(last'.changes) /\ graphJson' = graphJson)]_vars

\* C28: an update that follows an update which detected changes and saved,
\* with no change of the tree in between, detects an empty changeset, also
\* when the tree holds a readable file that does not parse.
C28_SecondUpdateIsEmpty ==
    [][(CmdUpdate /\ last.op = "update" /\ ~ChangeSetIsEmpty(last.changes) /\ ~dirty)
          => ChangeSetIsEmpty(last'.changes)]_vars

\* C30: generate_overview lists the modules in an order fixed by the graph:
\* a scan that saves a graph equal to the one already saved writes an
\* overview with the same sequence of module entries.
C30_OverviewOrderIsFixed ==
    [][(CmdScan /\ graphJson # None /\ graphJson' = graphJson)
          => slicesDir'["_overview"].modules = slicesDir["_overview"].modules]_vars

\* C8: an update whose changeset has no added, modified or removed path
\* leaves graph.json, meta.json and the slice documents as they were.
C8_EmptyChangesetWritesNothing ==
    [][(CmdUpdate /\ ChangeSetIsEmpty(last'.changes))
          => UNCHANGED <<graphJson, metaJson, slicesDir>>]_vars

\* An update with an empty changeset has run on an indexed tree, a second
\* or more after the documents were written.
C8_Witness ==
    /\ last.op = "update"
    /\ ChangeSetIsEmpty(last.changes)
    /\ graphJson # None
    /\ DOMAIN graphJson[1].files # {}
    /\ graphJson[1].scannedAt < now

\* The modules of g that have no file left in the tree.
Emptied(g, tree) ==
    {m \in DOMAIN g.modules : \A p \in Paths : tree[p] # Absent => ModuleOf(p) # m}

\* No module of g names m, and m is no module of g.
Forgotten(g, m) ==
    /\ m \notin DOMAIN g.modules
    /\ m \notin Range(g.summary.modules)
    /\ \A k \in DOMAIN g.modules :
          /\ m \notin Range(g.modules[k].dependsOn)
          /\ m \notin Range(g.modules[k].dependedBy)

\* C9 as stated: after an update that deleted the last file of module M, M
\* is forgotten and totalFiles has dropped by the number of deleted files.
C9_AsStated ==
    [][(CmdUpdate /\ last'.changes.removed # <<>>)
          => \A m \in Emptied(graphJson[1], disk) :
                /\ Forgotten(graphJson'[1], m)
                /\ graphJson'[1].summary.totalFiles =
                      graphJson[1].summary.totalFiles - Len(last'.changes.removed)]_vars

\* C9: after an update that deleted the last file of module M, M is
\* forgotten, and totalFiles is its old value less the number of deleted
\* files plus the number of added files that are indexed.
C9_LastFileOfModuleDeleted ==
    [][(CmdUpdate /\ last'.changes.removed # <<>>)
          => \A m \in Emptied(graphJson[1], disk) :
                /\ Forgotten(graphJson'[1], m)
                /\ graphJson'[1].summary.totalFiles =
                      graphJson[1].summary.totalFiles - Len(last'.changes.removed)
                      + Cardinality(Range(last'.changes.added)
                                        \cap DOMAIN graphJson'[1].files)]_vars

\* An update has removed a module whose files were deleted, and another
\* module remains.
C9_Witness ==
    /\ last.op = "update"
    /\ ~dirty
    /\ last.changes.removed # <<>>
    /\ \E m \in last.reaped : \A p \in Paths : disk[p] # Absent => ModuleOf(p) # m
    /\ DOMAIN graphJson[1].modules # {}

-----------------------------------------------------------------------------
(* Properties of the graph under scan_project and merge_graph_update       *)
(* (SpecMerge).                                                            *)

NoDuplicates(q) == \A i, j \in DOMAIN q : q[i] = q[j] => i = j

\* C2: whenever module A lists B in dependsOn, B lists A in dependedBy, and
\* conversely; both lists are sorted, without duplicates and without the
\* module's own name.
C2_EdgesSymmetricAndClean ==
    \A a \in DOMAIN graph.modules :
        /\ \A b \in Range(graph.modules[a].dependsOn) :
              b \in DOMAIN graph.modules /\ a \in Range(graph.modules[b].dependedBy)
        /\ \A b \in Range(graph.modules[a].dependedBy) :
              b \in DOMAIN graph.modules /\ a \in Range(graph.modules[b].dependsOn)
        /\ IsSortedStrict(graph.modules[a].dependsOn)
        /\ IsSortedStrict(graph.modules[a].dependedBy)
        /\ NoDuplicates(graph.modules[a].dependsOn)
        /\ NoDuplicates(graph.modules[a].dependedBy)
        /\ a \notin Range(graph.modules[a].dependsOn)
        /\ a \notin Range(graph.modules[a].dependedBy)

\* A merge has left a graph in which one module has two dependants.
C2_Witness ==
    /\ last.op = "merge"
    /\ \E a \in DOMAIN graph.modules : Len(graph.modules[a].dependedBy) = 2

\* C3: the module of every file is a key of modules, and the file's path
\* is in that module's files.
C3_FileInItsModule ==
    \A p \in DOMAIN graph.files :
        /\ graph.files[p].module \in DOMAIN graph.modules
        /\ p \in Range(graph.modules[graph.files[p].module].files)

\* A merge has given a file another module, next to a file it left alone.
C3_Witness ==
    /\ last.op = "merge"
    /\ last.moved # {}
    /\ \E p \in DOMAIN graph.files : p \notin last.moved

\* C23: every path in a module's files is a key of files whose module is
\* that module, and is there once; hence each path is in the files of one
\* module only, also after a merge that gives a file another module.
C23_ModuleFilesAreItsFiles ==
    \A m \in DOMAIN graph.modules :
        /\ NoDuplicates(graph.modules[m].files)
        /\ \A p \in Range(graph.modules[m].files) :
              /\ p \in DOMAIN graph.files
              /\ graph.files[p].module = m
              /\ \A k \in DOMAIN graph.modules \ {m} : p \notin Range(graph.modules[k].files)

\* A merge has moved a file to another module while the module of its
\* directory keeps other files.
C23_Witness ==
    /\ last.op = "merge"
    /\ \E p \in last.moved :
          /\ p \in DOMAIN graph.files
          /\ graph.files[p].module = OtherModule
          /\ ModuleNameAt[root][AbsPathAt[root][p]] \in DOMAIN graph.modules
          /\ ModuleNameAt[root][AbsPathAt[root][p]] # OtherModule

\* C25: every name in a module's dependsOn or dependedBy is a key of
\* modules.
C25_EdgesNameModules ==
    \A m \in DOMAIN graph.modules :
        Range(graph.modules[m].dependsOn) \cup Range(graph.modules[m].dependedBy)
            \subseteq DOMAIN graph.modules

\* A merge has removed a module and left a module that depends on another.
C25_Witness ==
    /\ last.op = "merge"
    /\ last.reaped # {}
    /\ \E m \in DOMAIN graph.modules : graph.modules[m].dependsOn # <<>>

\* C4: no module has an empty files list.
C4_NoEmptyModule ==
    \A m \in DOMAIN graph.modules : graph.modules[m].files # <<>>

\* A merge has removed a module by moving its last file to another module.
C4_Witness ==
    /\ last.op = "merge"
    /\ \E p \in last.moved :
          /\ p \in DOMAIN graph.files
          /\ ModuleNameAt[root][AbsPathAt[root][p]] \in last.reaped

\* C5: totalFiles, totalFunctions and totalClasses are the number of files
\* and the sums of their function and class counts.
C5_SummaryTotals ==
    /\ graph.summary.totalFiles = Cardinality(DOMAIN graph.files)
    /\ graph.summary.totalFunctions =
          SumOver(DOMAIN graph.files,
                  [p \in DOMAIN graph.files |-> Len(graph.files[p].functions)])
    /\ graph.summary.totalClasses =
          SumOver(DOMAIN graph.files,
                  [p \in DOMAIN graph.files |-> Len(graph.files[p].classes)])

\* A merge has left files with functions and classes, and removed a module.
C5_Witness ==
    /\ last.op = "merge"
    /\ last.reaped # {}
    /\ graph.summary.totalFunctions >= 3
    /\ graph.summary.totalClasses >= 1

-----------------------------------------------------------------------------
(* Properties of detect_changed_files (SpecDetect).                        *)

\* C10: every path of the two maps is in exactly one of the four
\* sequences, the one its presence and hashes call for; no other path is in
\* any of them; each sequence is sorted.
C10_ChangeSetPartition ==
    last.op = "detect" =>
        /\ \A p \in DOMAIN oldHashes \cup DOMAIN newHashes :
              /\ p \in Range(changes.added) <=>
                    (p \in DOMAIN newHashes /\ p \notin DOMAIN oldHashes)
              /\ p \in Range(changes.removed) <=>
                    (p \in DOMAIN oldHashes /\ p \notin DOMAIN newHashes)
              /\ p \in Range(changes.modified) <=>
                    (p \in DOMAIN oldHashes /\ p \in DOMAIN newHashes
                        /\ oldHashes[p] # newHashes[p])
              /\ p \in Range(changes.unchanged) <=>
                    (p \in DOMAIN oldHashes /\ p \in DOMAIN newHashes
                        /\ oldHashes[p] = newHashes[p])
              /\ Cardinality({q \in {changes.added, changes.modified,
                                     changes.removed, changes.unchanged} :
                                p \in Range(q)}) = 1
        /\ Range(changes.added) \cup Range(changes.modified)
              \cup Range(changes.removed) \cup Range(changes.unchanged)
              \subseteq DOMAIN oldHashes \cup DOMAIN newHashes
        /\ Len(changes.added) + Len(changes.modified) + Len(changes.removed)
              + Len(changes.unchanged) = Cardinality(DOMAIN oldHashes \cup DOMAIN newHashes)
        /\ IsSortedStrict(changes.added)
        /\ IsSortedStrict(changes.modified)
        /\ IsSortedStrict(changes.removed)
        /\ IsSortedStrict(changes.unchanged)

\* detect_changed_files has returned four non-empty sequences.
C10_Witness ==
    /\ last.op = "detect"
    /\ changes.added # <<>>
    /\ changes.modified # <<>>
    /\ changes.removed # <<>>
    /\ changes.unchanged # <<>>

\* C17: after a scan and after an update every module's files sequence is
\* in ascending lexicographic order of the relative paths, also when the
\* update added a file that sorts before the files the module had.
C17_ModuleFilesSorted ==
    (last.op \in {"scan", "update"})
        => \A m \in DOMAIN graph.modules : IsSortedStrict(graph.modules[m].files)

-----------------------------------------------------------------------------
(* Properties of the writes of save_graph (SpecPersist).                   *)

\* meta.json is the one save_graph writes for the graph g.
MetaMatches(meta, g) == meta.fileHashes = MetaOf(g, 0).fileHashes

\* C15: whenever the process can stop, graph.json and meta.json are both
\* missing or are a pair written by one save_graph: a graph.json is never
\* beside a missing meta.json or the meta.json of another graph.
C15_PairIsAtomic ==
    \/ graphJson = None /\ metaJson = None
    \/ /\ graphJson # None
       /\ metaJson # None
       /\ MetaMatches(metaJson[1], graphJson[1])

\* The file at p has a language, can be read and parses.
Indexed(tree, p) ==
    /\ tree[p] # Absent
    /\ LanguageAt[AbsPathAt[root][p]] # NoLanguage
    /\ Facts[tree[p]].readable
    /\ Facts[tree[p]].tree

\* The files of g are the indexable files of the tree, with their hashes.
MatchesTree(g, tree) ==
    /\ DOMAIN g.files = {p \in DOMAIN tree : Indexed(tree, p)}
    /\ \A p \in DOMAIN g.files : g.files[p].hash = compute_file_hash(tree[p])

\* A save stopped after graph.json and before meta.json: the meta.json of
\* an earlier save lies beside the graph.json of another graph.
TornSave ==
    /\ last.op = "exit"
    /\ graphJson # None
    /\ metaJson # None
    /\ ~MetaMatches(metaJson[1], graphJson[1])

\* C29: after a save that stopped between graph.json and meta.json, the
\* graph of the next update has exactly the indexable files of the tree as
\* the keys of files, each with the hash of its bytes, whatever was written
\* or deleted in between (here: on trees whose files all parse).
C29_UpdateRepairsTornSave ==
    [][(StartUpdate /\ TornSave /\ \A p \in DOMAIN disk : disk[p] \in {"A", "B", Absent})
          => MatchesTree(graph', disk)]_vars

-----------------------------------------------------------------------------
(* Properties of scan_project as a library function (SpecScan).            *)

\* C11: merge_graph_update with no updated and no removed files, applied
\* to the graph of a full scan, leaves files, every module's files,
\* dependsOn and dependedBy, the summary and config.languages as they were.
C11_MergeNothingIsNoOp ==
    [][(MergeNothing /\ last.op \in {"scan", "rescan"}) => SameIndex(graph', graph)]_vars

\* C16: a second full scan of the same tree builds the same graph apart
\* from scannedAt, whatever the order in which the walker yields the files
\* and the hash sets yield the module names.
C16_ScanIsDeterministic ==
    [][(ScanAgain /\ last.op \in {"scan", "rescan"})
          => (SameIndex(graph', graph) /\ graph'.config = graph.config
                                      /\ graph'.project = graph.project)]_vars

\* A second scan built a module of two files that depends on two modules.
C16_Witness ==
    /\ last.op = "rescan"
    /\ \E m \in DOMAIN graph.modules :
          Len(graph.modules[m].dependsOn) >= 2
    /\ \E m \in DOMAIN graph.modules : Len(graph.modules[m].files) >= 2

-----------------------------------------------------------------------------
(* Properties of the commands on C and C++ files (SpecLang).               *)

\* The tree holds a file with a C++-specific extension.
TreeHasCpp(tree) ==
    \E p \in DOMAIN tree : tree[p] # Absent /\ CppSourceAt[AbsPathAt[root][p]]

\* C12: in the graph a scan or an update leaves, a .h file has the language
\* cpp if the tree holds a file with a C++-specific extension and c
\* otherwise, also when the update did not touch the .h file.
C12_HeaderLanguageFollowsTree ==
    (last.op \in {"scan", "update"} /\ ~dirty)
        => \A p \in DOMAIN graph.files :
              HeaderAt[AbsPathAt[root][p]]
                  => graph.files[p].language = (IF TreeHasCpp(disk) THEN "cpp" ELSE "c")

JsFamily == {"typescript", "javascript"}

\* Module m has a TypeScript or JavaScript file with a relative import.
HasJsImport(g, m) ==
    \E p \in DOMAIN g.files :
        /\ g.files[p].module = m
        /\ g.files[p].language \in JsFamily
        /\ \E k \in DOMAIN g.files[p].imports : ~g.files[p].imports[k].isExternal

\* C13: in the graph a scan or an update leaves, every dependsOn edge and
\* every dependedBy edge comes from an import of a TypeScript or JavaScript
\* file of the depending module.
C13_EdgesOnlyFromJsFamily ==
    (last.op \in {"scan", "update"})
        => \A m \in DOMAIN graph.modules :
              /\ graph.modules[m].dependsOn # <<>> => HasJsImport(graph, m)
              /\ \A d \in Range(graph.modules[m].dependedBy) : HasJsImport(graph, d)

\* The file at p is one the indexer keeps: it has a language, can be read
\* and parses.
Indexable(tree, p) ==
    /\ tree[p] # Absent
    /\ LanguageAt[AbsPathAt[root][p]] # NoLanguage
    /\ Facts[tree[p]].readable
    /\ Facts[tree[p]].tree

\* C14: after a scan or an update, a file that cannot be read, does not
\* parse or has no language has no entry in graph.files and is in no
\* module's files, and every other file of the tree has an entry.
C14_SkippedFilesHaveNoEntry ==
    (last.op \in {"scan", "update"} /\ ~dirty)
        => \A p \in DOMAIN disk :
              IF Indexable(disk, p)
              THEN p \in DOMAIN graph.files
              ELSE /\ p \notin DOMAIN graph.files
                   /\ \A m \in DOMAIN graph.modules : p \notin Range(graph.modules[m].files)

-----------------------------------------------------------------------------
(* Properties of analyze_impact (SpecImpact).                              *)

\* The names reached from the names of S by one dependedBy edge.
Dependants(modules, S) ==
    UNION {Range(modules[m].dependedBy) : m \in S \cap DOMAIN modules}

\* The names reached from t by at most d dependedBy edges.
RECURSIVE Within(_, _, _)
Within(modules, t, d) ==
    IF d = 0 THEN {t}
    ELSE Within(modules, t, d - 1) \cup Dependants(modules, Within(modules, t, d - 1))

\* C18: for a target that resolves to a module t of the graph,
\* transitiveDependants is exactly the set of the modules other than t that
\* are reached from t by 1 to maxDepth dependedBy edges, in ascending order.
C18_TransitiveWithinDepth ==
    (impact # None /\ impact[1].result.targetModule \in DOMAIN graph.modules)
        => impact[1].result.transitiveDependants =
              SortStrings(Within(graph.modules, impact[1].result.targetModule,
                                 impact[1].maxDepth)
                          \ {impact[1].result.targetModule})

\* A call with maxDepth 1 returned a dependant and left out a module that
\* is two edges away.
C18_Witness ==
    /\ impact # None
    /\ impact[1].result.targetModule \in DOMAIN graph.modules
    /\ impact[1].maxDepth = 1
    /\ Len(impact[1].result.transitiveDependants) = 1
    /\ Within(graph.modules, impact[1].result.targetModule, 2)
          # Within(graph.modules, impact[1].result.targetModule, 1)

\* C19: with maxDepth 0, transitiveDependants is empty, impactedModules is
\* the target module alone, and directDependants is the whole dependedBy
\* list of the target module.
C19_DepthZero ==
    (impact # None /\ impact[1].maxDepth = 0)
        => /\ impact[1].result.transitiveDependants = <<>>
           /\ impact[1].result.impactedModules = <<impact[1].result.targetModule>>
           /\ impact[1].result.targetModule \in DOMAIN graph.modules
                 => impact[1].result.directDependants
                       = graph.modules[impact[1].result.targetModule].dependedBy
           /\ impact[1].result.targetModule \notin DOMAIN graph.modules
                 => impact[1].result.directDependants = <<>>

\* A call with maxDepth 0 on a module that has dependants.
C19_Witness ==
    /\ impact # None
    /\ impact[1].maxDepth = 0
    /\ Len(impact[1].result.directDependants) >= 2

\* The first of the file keys that contain the target, in ascending order.
FirstMatching(g, target) == SortStrings(Matching(g, target))[1]

\* C20: a target that is no module key and no file key and is a part of
\* several file keys resolves to the module of the first of these keys in
\* ascending order.
C20_FirstMatchInOrder ==
    (/\ impact # None
     /\ impact[1].target \notin DOMAIN graph.modules
     /\ impact[1].target \notin DOMAIN graph.files
     /\ Cardinality(Matching(graph, impact[1].target)) >= 2)
        => impact[1].result.targetModule
              = graph.files[FirstMatching(graph, impact[1].target)].module

\* The target is no module key, no file key and no part of a file key.
Unmatched(g, target) ==
    /\ target \notin DOMAIN g.modules
    /\ target \notin DOMAIN g.files
    /\ Matching(g, target) = {}

\* C21: for a target that matches nothing, targetModule is the target
\* string, the target type is module, and directDependants,
\* transitiveDependants, impactedModules and impactedFiles are empty.
C21_UnmatchedTargetIsEmpty ==
    (impact # None /\ Unmatched(graph, impact[1].target))
        => /\ impact[1].result.targetModule = impact[1].target
           /\ impact[1].result.targetType = "module"
           /\ impact[1].result.directDependants = <<>>
           /\ impact[1].result.transitiveDependants = <<>>
           /\ impact[1].result.impactedModules = <<>>
           /\ impact[1].result.impactedFiles = <<>>

\* Every name of the graph's dependedBy relation, and the modules.
ImpactNames(g) ==
    DOMAIN g.modules \cup UNION {Range(g.modules[m].dependedBy) : m \in DOMAIN g.modules}

\* C24: analyze_impact ends after taking at most one element per name from
\* the queue, whatever cycles and self-loops dependedBy has and whether or
\* not the target is a module; no name is twice in transitiveDependants and
\* the target module is not in it.
C24_BfsTerminates ==
    impact # None
        => /\ BfsRun(graph.modules, impact[1].result.targetModule, impact[1].maxDepth).steps
                 <= Cardinality(ImpactNames(graph) \cup {impact[1].result.targetModule})
           /\ NoDuplicates(impact[1].result.transitiveDependants)
           /\ impact[1].result.targetModule \notin Range(impact[1].result.transitiveDependants)

\* A call with the greatest depth on a module that has itself as a
\* dependant and is on a cycle through another module.
C24_Witness ==
    /\ impact # None
    /\ impact[1].maxDepth = MaxDepth
    /\ impact[1].result.targetModule \in DOMAIN graph.modules
    /\ impact[1].result.targetModule
          \in Range(graph.modules[impact[1].result.targetModule].dependedBy)
    /\ \E m \in Range(impact[1].result.transitiveDependants) :
          /\ m \in DOMAIN graph.modules
          /\ impact[1].result.targetModule \in Range(graph.modules[m].dependedBy)

-----------------------------------------------------------------------------
(* Properties of detect_module_name (SpecModule).                          *)

SkippedSegments == {"src", "lib", "app", "source", "packages"}

\* The module name the rule gives for a file in the directories dirs: the
\* first directory that follows a run of skipped ones, "_root" without one.
RuleGives(dirs, module) ==
    \/ /\ \A i \in DOMAIN dirs : dirs[i] \in SkippedSegments
       /\ module = "_root"
    \/ \E i \in DOMAIN dirs :
          /\ dirs[i] \notin SkippedSegments
          /\ \A j \in 1..(i - 1) : dirs[j] \in SkippedSegments
          /\ module = dirs[i]

ExampleGives(dirs, name, module) ==
    /\ (dirs = <<"src", "auth">> /\ name = "login.ts") => module = "auth"
    /\ (dirs = <<"utils">> /\ name = "helper.ts") => module = "utils"
    /\ (dirs = <<>> /\ name = "main.rs") => module = "_root"
    /\ (dirs = <<"src">> /\ name = "index.ts") => module = "_root"

\* C22: the module name of a file is the first segment of its directory
\* path below the project root after the leading segments src, lib, app,
\* source and packages are skipped, and "_root" when the file is at the
\* root or under skipped segments only: src/auth/login.ts gives auth,
\* utils/helper.ts utils, main.rs and src/index.ts _root.
C22_ModuleNameRule ==
    detected # None
        => /\ RuleGives(detected[1].dirs, detected[1].module)
           /\ ExampleGives(detected[1].dirs, detected[1].name, detected[1].module)

\* The name of a file under a skipped segment and then a module directory.
C22_Witness ==
    /\ detected # None
    /\ detected[1].dirs = <<"src", "auth">>
    /\ detected[1].name = "login.ts"
    /\ detected[1].module = "auth"

-----------------------------------------------------------------------------
(* Properties of imports that leave the project root (SpecClimb).          *)

\* Following segs from a directory depth levels below the project root
\* passes above the root.
RECURSIVE ClimbsFrom(_, _)
ClimbsFrom(segs, depth) ==
    IF segs = <<>> THEN FALSE
    ELSE IF Head(segs) = "" \/ Head(segs) = "." THEN ClimbsFrom(Tail(segs), depth)
    ELSE IF Head(segs) = ".." THEN depth = 0 \/ ClimbsFrom(Tail(segs), depth - 1)
    ELSE ClimbsFrom(Tail(segs), depth + 1)

\* The import source of the file rel_path leaves the project root.
Climbs(rel_path, source) ==
    ClimbsFrom(Split(source, "/"), Len(Split(rel_path, "/")) - 1)

\* C26: a relative import whose '..' segments pass above the project root
\* resolves to no module, in scan_project and in the rebuild of
\* merge_graph_update alike: every dependency of a module comes from a
\* relative import of one of its files that stays inside the root.
C26_ClimbingImportsUnresolved ==
    \A m \in DOMAIN graph.modules :
        graph.modules[m].dependsOn # <<>>
            => \E p \in DOMAIN graph.files :
                  /\ graph.files[p].module = m
                  /\ \E k \in DOMAIN graph.files[p].imports :
                        /\ StartsWith(graph.files[p].imports[k].source, ".")
                        /\ ~Climbs(p, graph.files[p].imports[k].source)

-----------------------------------------------------------------------------
(* Properties of the path lookup of rebuild_dependencies (SpecLookup).     *)

\* The module of every file is the one detect_module_name gives its path.
PathDerived(g) ==
    \A p \in DOMAIN g.files : g.files[p].module = ModuleNameAt[root][AbsPathAt[root][p]]

\* C27: when the module of every file is the one derived from its path,
\* the path lookup of rebuild_dependencies is the same table in whatever
\* order files is iterated, and so are the dependsOn and dependedBy that
\* merge_graph_update computes from it.
C27_LookupIgnoresOrder ==
    PathDerived(graph)
        => /\ Cardinality(RebuildPathLookups(graph.files)) = 1
           /\ Cardinality({merged.modules : merged \in MergeFinishes(graph)}) = 1

\* After a merge, two files share their path without extension and a file
\* of another module imports that path.
C27_Witness ==
    /\ last.op = "merge"
    /\ PathDerived(graph)
    /\ {"src/login.ts", "src/login.js"} \subseteq DOMAIN graph.files
    /\ "utils" \in DOMAIN graph.modules
    /\ graph.modules["utils"].dependsOn = <<"_root">>

=============================================================================
